---- MODULE Spec2Model ----
(***************************************************************************)
(* Club resource entitlement engine of src/server/services/club.service.ts *)
(*                                                                         *)
(* The state is the EntityAccess table, the denormalised availability flag *)
(* of each gate-able resource, the ClubTier, Club and Image tables, a      *)
(* record of the last completed call and, where a call is followed         *)
(* statement by statement or a request waits to be served, that call.      *)
(* In Spec, SpecTiers, SpecTierDelete, SpecClub and SpecCreate each        *)
(* service function is one action and the whole handler runs as a unit;    *)
(* SpecTx follows one call through its statements and its transaction;     *)
(* SpecList answers tier listings and SpecHandlers runs the model          *)
(* handlers of the tRPC controller; SpecRepeat keeps the arguments of the  *)
(* entitlement call just completed and can issue it a second time.         *)
(*                                                                         *)
(* An EntityAccess row is identified by (accessTo, accessorType,           *)
(* accessorId).  The addedById column is a payload that no operation reads *)
(* and is left out.  The `clubs` and `clubTierIds` arrays of the inputs    *)
(* are read by the code only through map / filter / some / `in`, so they   *)
(* are modelled as finite sets of entries and of tier ids, with a flag     *)
(* telling whether the array lists one of them a second time.              *)
(***************************************************************************)
EXTENDS Integers, FiniteSets, Sequences, Bags, TLC

VARIABLES entityAccess, availability, last, clubTier, call, club, image

vars == <<entityAccess, availability, last, clubTier, call, club, image>>

(***************************************************************************)
(* Bound on the input of one call: the number of club ids and tier ids it  *)
(* names, every occurrence counted.                                        *)
(***************************************************************************)
MaxIds == 3

(***************************************************************************)
(* The fixed world the calls run against: users, clubs, tiers, resources.  *)
(*   u1 owns the resource R and club A                                     *)
(*   u2 owns club B and is an admin of A holding ManageResources           *)
(*   u3 is a platform moderator who owns and administers nothing           *)
(*   u4 is an admin of B holding ManageClub and ManageTiers                *)
(* Club A starts with tiers T1 and T2, club B with tier T3.                *)
(***************************************************************************)
Users == {"u1", "u2", "u3", "u4"}

Moderators == {"u3"}

Clubs == {"A", "B"}

ClubOwner == [c \in Clubs |-> IF c = "A" THEN "u1" ELSE "u2"]

ClubAdmins ==
    { [clubId |-> "A", userId |-> "u2", permissions |-> {"ManageResources"}],
      [clubId |-> "B", userId |-> "u4",
       permissions |-> {"ManageClub", "ManageTiers"}] }

ClubTiers == {"T1", "T2", "T3"}

TierClub == [t \in ClubTiers |-> IF t = "T3" THEN "B" ELSE "A"]

Resources == {"R"}

ResourceOwner == [e \in Resources |-> "u1"]

Availability == {"Public", "Private"}

\* a ClubTier row: its club and its two visibility flags
TierRecord(id, clubId, unlisted, joinable) ==
    [id |-> id, clubId |-> clubId, unlisted |-> unlisted, joinable |-> joinable]

\* no call is being followed statement by statement
Idle == [pc |-> "idle"]

\* a row of the Club table; `name` stands for the editable columns
ClubRecord(id, userId, name) == [id |-> id, userId |-> userId, name |-> name]

(***************************************************************************)
(* EntityAccess rows.                                                      *)
(***************************************************************************)
ClubRow(e, c) == [accessTo |-> e, accessorType |-> "Club", accessorId |-> c]

TierRow(e, t) == [accessTo |-> e, accessorType |-> "ClubTier", accessorId |-> t]

UserRow(e, u) == [accessTo |-> e, accessorType |-> "User", accessorId |-> u]

\* the user holding a direct unlock.  User, Club and ClubTier ids come from
\* separate sequences, so an accessorId names a row only together with its
\* accessorType: this user's id is the id of club A.
UnlockedUser == "A"

EntityAccessRows ==
    {ClubRow(e, c) : e \in Resources, c \in Clubs}
        \cup {TierRow(e, t) : e \in Resources, t \in ClubTiers}
        \cup {UserRow(e, u) : e \in Resources, u \in Users \cup {UnlockedUser}}

(***************************************************************************)
(* Inputs: one entry of the `clubs` array, and the arrays themselves.      *)
(***************************************************************************)
ClubEntries == [clubId : Clubs, clubTierIds : SUBSET ClubTiers]

\* the ids one `clubs` array names: one club id per entry plus its tier ids
IdsNamed(clubs) ==
    Cardinality(clubs)
        + Cardinality(UNION {{<<c, t>> : t \in c.clubTierIds} : c \in clubs})

ClubLists == {clubs \in SUBSET ClubEntries : IdsNamed(clubs) <= MaxIds}

\* the clubTierIds argument of updateClubResource, next to its clubId
TierIdLists == {s \in SUBSET ClubTiers : 1 + Cardinality(s) <= MaxIds}

(***************************************************************************)
(* External collaborators (common.service), read through their contract.   *)
(***************************************************************************)
entityOwnership(userId, e) == ResourceOwner[e] = userId

entityAvailabilityUpdate(av, e, value) == [av EXCEPT ![e] = value]

\* per club gating e: the club id and the tier ids of that club gating e
entityRequiresClub(ea, e) ==
    { [clubId |-> c,
       clubTierIds |-> {t.id : t \in {x \in clubTier :
                                         x.clubId = c /\ TierRow(e, x.id) \in ea}}] :
      c \in {c2 \in Clubs : \/ ClubRow(e, c2) \in ea
                            \/ \E t \in clubTier : t.clubId = c2 /\ TierRow(e, t.id) \in ea} }

getClubDetailsForResource(ea, e) == entityRequiresClub(ea, e)

(***************************************************************************)
(* userContributingClubs: the clubs among clubIds that userId owns or is   *)
(* an admin of, each with its owner and the caller's admin row (if any).   *)
(***************************************************************************)
AdminRowsOf(userId, c) == {a \in ClubAdmins : a.clubId = c /\ a.userId = userId}

\* the query on a given client: dbRead, or the transaction client `tx`
userContributingClubsTx(tx, userId, clubIds) ==
    { [id |-> c.id, userId |-> c.userId, admins |-> AdminRowsOf(userId, c.id)] :
      c \in {c2 \in tx :
                /\ c2.id \in clubIds
                /\ c2.userId = userId \/ AdminRowsOf(userId, c2.id) # {}} }

userContributingClubs(userId, clubIds) ==
    userContributingClubsTx(club, userId, clubIds)

(***************************************************************************)
(* Shared pieces of the handlers.                                          *)
(***************************************************************************)
\* entityAccess.findFirst({ accessToId, accessToType })
HasAccess(ea, e) == \E row \in ea : row.accessTo = e

\* clubTier.findMany({ clubId in clubIds }).map(t => t.id)
TierIdsOfClubs(clubIds) == {t.id : t \in {x \in clubTier : x.clubId \in clubIds}}

\* variant: delete in place of deleteMany, one matching row goes
DeleteScoped_OneRow(ea, e, clubIds, tierIds) ==
    LET matching ==
            {row \in ea :
                /\ row.accessTo = e
                /\ \/ row.accessorType = "Club" /\ row.accessorId \in clubIds
                   \/ row.accessorType = "ClubTier" /\ row.accessorId \in tierIds}
    IN  IF matching = {} THEN ea ELSE ea \ {CHOOSE row \in matching : TRUE}

\* variant: the accessor ids are matched without their accessorType
DeleteScoped_AnyAccessorType(ea, e, clubIds, tierIds) ==
    {row \in ea :
        ~ /\ row.accessTo = e
          /\ row.accessorId \in clubIds \cup tierIds}

\* entityAccess.deleteMany scoped to the resource and two accessor id lists
DeleteScoped(ea, e, clubIds, tierIds) ==
    {row \in ea :
        ~ /\ row.accessTo = e
          /\ \/ row.accessorType = "Club" /\ row.accessorId \in clubIds
             \/ row.accessorType = "ClubTier" /\ row.accessorId \in tierIds}

\* the completed call: its principal, the club ids it named, its outcome and
\* the rows its deleteMany removed
Done(op, userId, clubIds, result, removed) ==
    [op |-> op, userId |-> userId, clubIds |-> clubIds,
     result |-> result, removed |-> removed]

\* variant: the table has no key and takes any row
UniqueConstraintFails_NoKey(ea, rows, listedTwice) == FALSE

\* The store keeps one EntityAccess row per (accessTo, accessorType,
\* accessorId).  create / createMany without skipDuplicates throws when a row
\* to insert has the key of a row in the table, or when the data lists one
\* key twice.
UniqueConstraintFails(ea, rows, listedTwice) ==
    listedTwice \/ rows \cap ea # {}

Reject(op, userId, clubIds, result) ==
    /\ last' = Done(op, userId, clubIds, result, {})
    /\ UNCHANGED <<entityAccess, availability>>

(***************************************************************************)
(* upsertClubResource ("grant")                                            *)
(***************************************************************************)
\* !isModerator && !ownership.isOwner  => AuthorizationError
UpsertMayAddResource(userId, isModerator, e) ==
    isModerator \/ entityOwnership(userId, e)

\* slip: the call passes when the caller contributes to any one of the clubs
UpsertMayUseClubs_AnyClub(userId, isModerator, clubIds) ==
    \/ isModerator
    \/ \E c \in clubIds :
          \E cc \in userContributingClubs(userId, clubIds) : cc.id = c

\* !isModerator && clubIds.some(c => !contributingClubs.find(cc => cc.id === c))
UpsertMayUseClubs(userId, isModerator, clubIds) ==
    \/ isModerator
    \/ \A c \in clubIds :
          \E cc \in userContributingClubs(userId, clubIds) : cc.id = c

\* empty club list: delete the Club rows of details.clubs and the ClubTier
\* rows of their clubTierIds
UpsertEmptyAccess(ea, e) ==
    LET details == getClubDetailsForResource(ea, e)
    IN  DeleteScoped(ea, e, {d.clubId : d \in details},
                     UNION {d.clubTierIds : d \in details})

\* empty club list: Public only when no access row of any type is left
UpsertEmptyAvailability(av, ea, e) ==
    IF HasAccess(ea, e) THEN av ELSE entityAvailabilityUpdate(av, e, "Public")

\* slip: the delete covers only the tier ids the call lists, not every tier
\* of the named clubs
UpsertReplaceAccess_ListedTiersOnly(ea, e, clubs) ==
    LET clubIds == {c.clubId : c \in clubs}
        tierAccessIds == UNION {c.clubTierIds : c \in clubs}
    IN  DeleteScoped(ea, e, clubIds, tierAccessIds)
            \cup {ClubRow(e, c.clubId) : c \in {c2 \in clubs : c2.clubTierIds = {}}}
            \cup {TierRow(e, t) : t \in tierAccessIds}

\* slip: a club row is inserted for every entry, tiered or not
UpsertReplaceAccess_ClubRowAlways(ea, e, clubs) ==
    LET clubIds == {c.clubId : c \in clubs}
    IN  DeleteScoped(ea, e, clubIds, TierIdsOfClubs(clubIds))
            \cup {ClubRow(e, c) : c \in clubIds}
            \cup {TierRow(e, t) : t \in UNION {c.clubTierIds : c \in clubs}}

\* non-empty club list: delete within {clubIds} + {tiers of clubIds}, then
\* insert the general club rows and the tier rows
UpsertReplaceAccess(ea, e, clubs) ==
    LET clubIds == {c.clubId : c \in clubs}
        clubTierIds == TierIdsOfClubs(clubIds)
        generalClubAccess == {c \in clubs : c.clubTierIds = {}}
        tierClubAccess == {c \in clubs : c.clubTierIds # {}}
        clubAccessIds == {c.clubId : c \in generalClubAccess}
        tierAccessIds == UNION {c.clubTierIds : c \in tierClubAccess}
    IN  DeleteScoped(ea, e, clubIds, clubTierIds)
            \cup {ClubRow(e, c) : c \in clubAccessIds}
            \cup {TierRow(e, t) : t \in tierAccessIds}

\* the rows of the two createMany calls
UpsertInsertRows(e, clubs) ==
    {ClubRow(e, c.clubId) : c \in {c2 \in clubs : c2.clubTierIds = {}}}
        \cup {TierRow(e, t) : t \in UNION {c.clubTierIds : c \in clubs}}

\* `clubs` is the set of distinct entries of the array and `repeated` tells
\* whether the array lists one of them a second time.  A repeated entry, and
\* two entries naming the same tier, put one row twice into a createMany.
UpsertListsRowTwice(clubs, repeated) ==
    \/ repeated
    \/ \E c \in clubs, d \in clubs : c # d /\ c.clubTierIds \cap d.clubTierIds # {}

\* one of the createMany calls throws and the transaction is rolled back
UpsertInsertFails(ea, e, clubs, repeated) ==
    LET clubIds == {c.clubId : c \in clubs}
    IN  UniqueConstraintFails(DeleteScoped(ea, e, clubIds, TierIdsOfClubs(clubIds)),
                              UpsertInsertRows(e, clubs),
                              UpsertListsRowTwice(clubs, repeated))

\* slip: the flag is not written after the inserts
UpsertReplaceAvailability_Skipped(av, e) == av

UpsertReplaceAvailability(av, e) == entityAvailabilityUpdate(av, e, "Private")

upsertClubResource(userId, isModerator, e, clubs, repeated) ==
    LET clubIds == {c.clubId : c \in clubs}
    IN  IF ~UpsertMayAddResource(userId, isModerator, e)
        THEN Reject("upsertClubResource", userId, clubIds, "AuthorizationError")
        ELSE IF ~UpsertMayUseClubs(userId, isModerator, clubIds)
        THEN Reject("upsertClubResource", userId, clubIds, "AuthorizationError")
        ELSE IF clubIds = {}
        THEN LET ea2 == UpsertEmptyAccess(entityAccess, e)
             IN  /\ entityAccess' = ea2
                 /\ availability' = UpsertEmptyAvailability(availability, ea2, e)
                 /\ last' = Done("upsertClubResource", userId, clubIds, "ok",
                                 entityAccess \ ea2)
        ELSE IF UpsertInsertFails(entityAccess, e, clubs, repeated)
        THEN Reject("upsertClubResource", userId, clubIds, "UniqueConstraintError")
        ELSE /\ entityAccess' = UpsertReplaceAccess(entityAccess, e, clubs)
             /\ availability' = UpsertReplaceAvailability(availability, e)
             /\ last' = Done("upsertClubResource", userId, clubIds, "ok",
                             entityAccess \ DeleteScoped(entityAccess, e, clubIds,
                                                         TierIdsOfClubs(clubIds)))

(***************************************************************************)
(* updateClubResource ("updateScope")                                      *)
(***************************************************************************)
\* slip: the ownership check is dropped
UpdateMayAddResource_Anyone(userId, isModerator, e) == TRUE

UpdateMayAddResource(userId, isModerator, e) ==
    isModerator \/ entityOwnership(userId, e)

UpdateMayUseClub(userId, isModerator, clubId) ==
    \/ isModerator
    \/ \E cc \in userContributingClubs(userId, {clubId}) : cc.id = clubId

\* slip: the delete is scoped to the resource only, not to the club
UpdateReplaceAccess_DeleteAll(ea, e, clubId, clubTierIds) ==
    DeleteScoped(ea, e, Clubs, ClubTiers)
        \cup (IF clubTierIds = {}
              THEN {ClubRow(e, clubId)}
              ELSE {TierRow(e, t) : t \in clubTierIds})

UpdateReplaceAccess(ea, e, clubId, clubTierIds) ==
    LET allClubTierIds == TierIdsOfClubs({clubId})
        isGeneralClubAccess == clubTierIds = {}
    IN  DeleteScoped(ea, e, {clubId}, allClubTierIds)
            \cup (IF isGeneralClubAccess
                  THEN {ClubRow(e, clubId)}
                  ELSE {TierRow(e, t) : t \in clubTierIds})

\* the create of the club row, or the createMany of the tier rows, throws and
\* the transaction is rolled back; `repeated` tells whether clubTierIds lists
\* one of its ids a second time
UpdateInsertFails(ea, e, clubId, clubTierIds, repeated) ==
    UniqueConstraintFails(DeleteScoped(ea, e, {clubId}, TierIdsOfClubs({clubId})),
                          IF clubTierIds = {}
                          THEN {ClubRow(e, clubId)}
                          ELSE {TierRow(e, t) : t \in clubTierIds},
                          repeated /\ clubTierIds # {})

updateClubResource(userId, isModerator, e, clubId, clubTierIds, repeated) ==
    IF ~UpdateMayAddResource(userId, isModerator, e)
    THEN Reject("updateClubResource", userId, {clubId}, "AuthorizationError")
    ELSE IF ~UpdateMayUseClub(userId, isModerator, clubId)
    THEN Reject("updateClubResource", userId, {clubId}, "AuthorizationError")
    ELSE IF UpdateInsertFails(entityAccess, e, clubId, clubTierIds, repeated)
    THEN Reject("updateClubResource", userId, {clubId}, "UniqueConstraintError")
    ELSE /\ entityAccess' = UpdateReplaceAccess(entityAccess, e, clubId, clubTierIds)
         /\ UNCHANGED availability
         /\ last' = Done("updateClubResource", userId, {clubId}, "ok",
                         entityAccess \ DeleteScoped(entityAccess, e, {clubId},
                                                     TierIdsOfClubs({clubId})))

(***************************************************************************)
(* removeClubResource ("revoke")                                           *)
(***************************************************************************)
\* isModerator || ownership.isOwner || userClub?.userId === userId ||
\*   userClub.admin?.permissions.includes(ManageResources)
\* The last operand dereferences userClub without `?.`: when the caller does
\* not contribute to the club, userClub is undefined and the read throws.
canRemoveResource(userId, isModerator, e, clubId) ==
    LET userClubs == userContributingClubs(userId, {clubId})
    IN  IF isModerator \/ entityOwnership(userId, e)
        THEN "allow"
        ELSE IF \E uc \in userClubs : uc.userId = userId
        THEN "allow"
        ELSE IF userClubs = {}
        THEN "TypeError"
        ELSE IF \E uc \in userClubs : \E a \in uc.admins :
                    "ManageResources" \in a.permissions
        THEN "allow"
        ELSE "deny"

\* slip: only the Club-level row is deleted, the tier rows of the club stay
RemoveAccess_ClubRowOnly(ea, e, clubId) == DeleteScoped(ea, e, {clubId}, {})

RemoveAccess(ea, e, clubId) ==
    DeleteScoped(ea, e, {clubId}, TierIdsOfClubs({clubId}))

\* slip: the "still has access rows" check is dropped
RemoveAvailability_NoRecheck(av, ea, e) == entityAvailabilityUpdate(av, e, "Public")

RemoveAvailability(av, ea, e) ==
    IF HasAccess(ea, e) THEN av ELSE entityAvailabilityUpdate(av, e, "Public")

removeClubResource(userId, isModerator, e, clubId) ==
    LET can == canRemoveResource(userId, isModerator, e, clubId)
    IN  IF can = "TypeError"
        THEN Reject("removeClubResource", userId, {clubId}, "TypeError")
        ELSE IF can = "deny"
        THEN Reject("removeClubResource", userId, {clubId}, "AuthorizationError")
        ELSE LET ea2 == RemoveAccess(entityAccess, e, clubId)
             IN  /\ entityAccess' = ea2
                 /\ availability' = RemoveAvailability(availability, ea2, e)
                 /\ last' = Done("removeClubResource", userId, {clubId}, "ok",
                                 entityAccess \ ea2)

(***************************************************************************)
(* upsertClubTiers ("replaceTiers"), called on its own: no transaction     *)
(* client is passed, so every statement runs and commits by itself.        *)
(***************************************************************************)
\* tiers that have at least one membership row (memberships: { some: {} })
TiersWithMembers == {"T2"}

\* the id the next created tier gets
FreshTierIds == {"T4"}

\* the fields of a tier an edit can set
TierSettings ==
    { [unlisted |-> FALSE, joinable |-> TRUE],
      [unlisted |-> TRUE, joinable |-> FALSE] }

\* one entry of the `tiers` array: without an id it is created, with an id
\* it updates that tier
NoId == "none"

TierInputs ==
    [id : ClubTiers \cup {NoId}, unlisted : BOOLEAN, joinable : BOOLEAN]

TierEntries ==
    {t \in TierInputs :
        [unlisted |-> t.unlisted, joinable |-> t.joinable] \in TierSettings}

\* the `tiers` arrays: empty, or one entry
TierLists == {{}} \cup {{t} : t \in TierEntries}

\* the (tiers, deleteTierIds) arguments within the bound on ids named
TierCalls == [tiers : TierLists, deleteTierIds : TierIdLists]

\* userId !== userClub?.userId && !isModerator &&
\*   !userClub?.admin?.permissions?.includes(ManageTiers)  => throw
TiersMayEditTx(tx, userId, isModerator, clubId) ==
    LET userClubs == userContributingClubsTx(tx, userId, {clubId})
    IN  \/ \E uc \in userClubs : uc.userId = userId
        \/ isModerator
        \/ \E uc \in userClubs : \E a \in uc.admins :
              "ManageTiers" \in a.permissions

\* the same check without a transaction client (tx ?? dbRead)
TiersMayEdit(userId, isModerator, clubId) ==
    TiersMayEditTx(club, userId, isModerator, clubId)

\* the error thrown when TiersMayEdit fails: throwBadRequestError
TiersDeniedError == "BadRequestError"

\* variant: rejects only when every targeted tier has members
DeletingTierWithMembers_Every(ct, deleteTierIds) ==
    \A t \in ct : t.id \in deleteTierIds => t.id \in TiersWithMembers

\* clubTier.findFirst({ id in deleteTierIds, memberships some })
DeletingTierWithMembers(ct, deleteTierIds) ==
    \E t \in ct : t.id \in deleteTierIds /\ t.id \in TiersWithMembers

\* clubTier.deleteMany({ id in deleteTierIds })
TiersAfterDelete(ct, deleteTierIds) == {t \in ct : t.id \notin deleteTierIds}

\* clubTier.createMany of the entries without an id, under clubId
TiersAfterCreate(ct, clubId, tiers) ==
    LET toCreate == {t \in tiers : t.id = NoId}
        unused == {i \in FreshTierIds : \A x \in ct : x.id # i}
    IN  IF toCreate = {} \/ unused = {}
        THEN ct
        ELSE ct \cup {TierRecord(CHOOSE i \in unused : TRUE, clubId,
                                 t.unlisted, t.joinable) : t \in toCreate}

\* clubTier.update({ where: { id } }) of every entry with an id, all issued
\* together; an update of a row that does not exist throws, the others apply
TiersAfterUpdate(ct, tiers) ==
    LET toUpdate == {t \in tiers : t.id # NoId}
    IN  { IF \E u \in toUpdate : u.id = t.id
          THEN LET u == CHOOSE u \in toUpdate : u.id = t.id
               IN  TierRecord(t.id, t.clubId, u.unlisted, u.joinable)
          ELSE t : t \in ct }

UpdateOfMissingTier(ct, tiers) ==
    \E u \in tiers : u.id # NoId /\ \A t \in ct : t.id # u.id

DoneTiers(userId, clubId, result, deleteTierIds) ==
    [op |-> "upsertClubTiers", userId |-> userId, clubIds |-> {clubId},
     result |-> result, removed |-> {}, deleteTierIds |-> deleteTierIds]

\* the body of upsertClubTiers on the client it is given: txClub and ct are
\* the club and tier tables that client reads; the answer is the outcome and
\* the tier table the writes leave on that client
upsertClubTiersOn(txClub, ct, userId, isModerator, clubId, tiers, deleteTierIds) ==
    IF ~TiersMayEditTx(txClub, userId, isModerator, clubId)
    THEN [result |-> TiersDeniedError, clubTier |-> ct]
    ELSE IF deleteTierIds # {} /\ DeletingTierWithMembers(ct, deleteTierIds)
    THEN [result |-> "BadRequestError", clubTier |-> ct]
    ELSE LET deleted == TiersAfterDelete(ct, deleteTierIds)
             created == TiersAfterCreate(deleted, clubId, tiers)
         IN  [result |-> IF UpdateOfMissingTier(created, tiers)
                         THEN "RecordNotFound" ELSE "ok",
              clubTier |-> TiersAfterUpdate(created, tiers)]

\* upsertClubTiers called on its own: no tx is passed, every write goes
\* straight to the store (tx ?? dbWrite)
upsertClubTiers(userId, isModerator, clubId, tiers, deleteTierIds) ==
    LET out == upsertClubTiersOn(club, clubTier, userId, isModerator, clubId,
                                 tiers, deleteTierIds)
    IN  /\ clubTier' = out.clubTier
        /\ last' = DoneTiers(userId, clubId, out.result, deleteTierIds)

(***************************************************************************)
(* Specification                                                           *)
(***************************************************************************)
\* A resource starts Public with no access row, or Private behind a direct
\* per-user unlock granted outside the club engine.
Init ==
    /\ \E ua \in SUBSET {UserRow(e, UnlockedUser) : e \in Resources} :
          /\ entityAccess = ua
          /\ availability = [e \in Resources |->
                                IF HasAccess(ua, e) THEN "Private" ELSE "Public"]
    /\ last = Done("none", "u1", {}, "ok", {})
    /\ clubTier = {TierRecord(t, TierClub[t], FALSE, TRUE) : t \in ClubTiers}
    /\ call = Idle
    /\ club = {ClubRecord(c, ClubOwner[c], "n0") : c \in Clubs}
    /\ image = {}

Grant ==
    \E userId \in Users, e \in Resources, clubs \in ClubLists,
       repeated \in BOOLEAN :
        /\ repeated => clubs # {} /\ IdsNamed(clubs) < MaxIds
        /\ upsertClubResource(userId, userId \in Moderators, e, clubs, repeated)
        /\ UNCHANGED <<clubTier, call, club, image>>

UpdateScope ==
    \E userId \in Users, e \in Resources, clubId \in Clubs,
       clubTierIds \in TierIdLists, repeated \in BOOLEAN :
        /\ repeated => clubTierIds # {} /\ 1 + Cardinality(clubTierIds) < MaxIds
        /\ updateClubResource(userId, userId \in Moderators, e, clubId,
                              clubTierIds, repeated)
        /\ UNCHANGED <<clubTier, call, club, image>>

Revoke ==
    \E userId \in Users, e \in Resources, clubId \in Clubs :
        /\ removeClubResource(userId, userId \in Moderators, e, clubId)
        /\ UNCHANGED <<clubTier, call, club, image>>

ReplaceTiers ==
    \E userId \in Users, clubId \in Clubs, c \in TierCalls :
        /\ Cardinality({t \in c.tiers : t.id = NoId})
              <= Cardinality({i \in FreshTierIds : \A x \in clubTier : x.id # i})
        /\ upsertClubTiers(userId, userId \in Moderators, clubId,
                           c.tiers, c.deleteTierIds)
        /\ UNCHANGED <<entityAccess, availability, call, club, image>>

\* a replaceTiers call that only deletes
DeleteTiers ==
    \E userId \in Users, clubId \in Clubs, c \in TierCalls :
        /\ c.tiers = {}
        /\ upsertClubTiers(userId, userId \in Moderators, clubId,
                           c.tiers, c.deleteTierIds)
        /\ UNCHANGED <<entityAccess, availability, call, club, image>>

Next == Grant \/ UpdateScope \/ Revoke

Spec == Init /\ [][Next]_vars

\* the tier registry on its own, over a resource without grants
InitTiers == Init /\ entityAccess = {}

NextTiers == ReplaceTiers

SpecTiers == InitTiers /\ [][NextTiers]_vars

\* the entitlement calls together with tier deletions
NextTierDelete == Grant \/ UpdateScope \/ Revoke \/ DeleteTiers

(***************************************************************************)
(* One call followed statement by statement.                               *)
(*                                                                         *)
(* `entityAccess` and `availability` are the committed store, which is     *)
(* what every other request reads.  A statement issued on the transaction  *)
(* client `tx` changes only the transaction's view, call.tx, until the     *)
(* transaction commits; a statement issued on dbWrite, and                 *)
(* entityAvailabilityUpdate, which is not handed `tx`, commit at once.     *)
(* A call that fails the permission checks writes nothing and is not       *)
(* followed.  The arrays of the calls followed list every entry once; an   *)
(* insert that meets an existing key throws, which is a Fail at that       *)
(* statement.                                                              *)
(***************************************************************************)
\* variant: the transaction's uncommitted writes are visible to others
CommittedDuringTx_ReadUncommitted(committed, tx) == tx

\* what other requests see of the rows while a transaction is open: the
\* committed rows, not the transaction's view
CommittedDuringTx(committed, tx) == committed

Started(op, e, clubs, first) ==
    [pc |-> first, op |-> op, e |-> e, clubs |-> clubs,
     clubTierIds |-> TierIdsOfClubs({c.clubId : c \in clubs}),
     tx |-> entityAccess,
     before |-> [entityAccess |-> entityAccess, availability |-> availability],
     at |-> "none"]

BeginUpsert ==
    \E userId \in Users, e \in Resources, clubs \in ClubLists :
        /\ call.pc = "idle"
        /\ UpsertMayAddResource(userId, userId \in Moderators, e)
        /\ UpsertMayUseClubs(userId, userId \in Moderators,
                             {c.clubId : c \in clubs})
        /\ call' = Started("upsertClubResource", e, clubs,
                           IF clubs = {} THEN "emptyDelete" ELSE "delete")
        /\ UNCHANGED <<entityAccess, availability, last, clubTier, club, image>>

BeginUpdate ==
    \E userId \in Users, e \in Resources, clubId \in Clubs,
       clubTierIds \in TierIdLists :
        /\ call.pc = "idle"
        /\ UpdateMayAddResource(userId, userId \in Moderators, e)
        /\ UpdateMayUseClub(userId, userId \in Moderators, clubId)
        /\ call' = Started("updateClubResource", e,
                           {[clubId |-> clubId, clubTierIds |-> clubTierIds]},
                           "delete")
        /\ UNCHANGED <<entityAccess, availability, last, clubTier, club, image>>

BeginRemove ==
    \E userId \in Users, e \in Resources, clubId \in Clubs :
        /\ call.pc = "idle"
        /\ canRemoveResource(userId, userId \in Moderators, e, clubId) = "allow"
        /\ call' = Started("removeClubResource", e,
                           {[clubId |-> clubId, clubTierIds |-> {}]}, "delete")
        /\ UNCHANGED <<entityAccess, availability, last, clubTier, club, image>>

\* a statement of the transaction: the view changes, the committed rows do not
TxStep(tx2, next) ==
    /\ call' = [call EXCEPT !.tx = tx2, !.pc = next]
    /\ entityAccess' = CommittedDuringTx(entityAccess, tx2)
    /\ UNCHANGED <<availability, last, clubTier, club, image>>

\* tx.entityAccess.deleteMany, scoped to the club ids and their tier ids
TxDelete ==
    /\ call.pc = "delete"
    /\ TxStep(DeleteScoped(call.tx, call.e, {c.clubId : c \in call.clubs},
                           call.clubTierIds),
              IF call.op = "upsertClubResource" THEN "insertClub"
              ELSE IF call.op = "updateClubResource" THEN "insert"
              ELSE "availability")

\* upsertClubResource: tx.entityAccess.createMany of the general club rows
TxInsertClub ==
    /\ call.pc = "insertClub"
    /\ ~UniqueConstraintFails(call.tx,
                              {ClubRow(call.e, c.clubId) :
                                  c \in {c2 \in call.clubs : c2.clubTierIds = {}}},
                              FALSE)
    /\ TxStep(call.tx \cup {ClubRow(call.e, c.clubId) :
                               c \in {c2 \in call.clubs : c2.clubTierIds = {}}},
              "insertTier")

\* upsertClubResource: tx.entityAccess.createMany of the tier rows
TxInsertTier ==
    /\ call.pc = "insertTier"
    /\ ~UniqueConstraintFails(call.tx,
                              {TierRow(call.e, t) :
                                  t \in UNION {c.clubTierIds : c \in call.clubs}},
                              UpsertListsRowTwice(call.clubs, FALSE))
    /\ TxStep(call.tx \cup {TierRow(call.e, t) :
                               t \in UNION {c.clubTierIds : c \in call.clubs}},
              "availability")

\* updateClubResource: create of the club row, or createMany of the tier rows
TxInsert ==
    /\ call.pc = "insert"
    /\ ~UniqueConstraintFails(call.tx,
                              UNION {IF c.clubTierIds = {}
                                     THEN {ClubRow(call.e, c.clubId)}
                                     ELSE {TierRow(call.e, t) : t \in c.clubTierIds} :
                                     c \in call.clubs},
                              FALSE)
    /\ TxStep(call.tx \cup UNION {IF c.clubTierIds = {}
                                  THEN {ClubRow(call.e, c.clubId)}
                                  ELSE {TierRow(call.e, t) : t \in c.clubTierIds} :
                                  c \in call.clubs},
              "commit")

\* the flag write inside the transaction callback; it is not part of the
\* transaction.  removeClubResource decides on the transaction's view.
WriteAvailability ==
    /\ call.pc = "availability"
    /\ availability' =
          IF call.op = "upsertClubResource"
          THEN UpsertReplaceAvailability(availability, call.e)
          ELSE RemoveAvailability(availability, call.tx, call.e)
    /\ call' = [call EXCEPT !.pc = "commit"]
    /\ UNCHANGED <<entityAccess, last, clubTier, club, image>>

Commit ==
    /\ call.pc = "commit"
    /\ entityAccess' = call.tx
    /\ call' = [call EXCEPT !.pc = "done"]
    /\ UNCHANGED <<availability, last, clubTier, club, image>>

\* empty club list: dbWrite.entityAccess.deleteMany, outside any transaction
EmptyDelete ==
    /\ call.pc = "emptyDelete"
    /\ entityAccess' = UpsertEmptyAccess(entityAccess, call.e)
    /\ call' = [call EXCEPT !.pc = "emptyAvailability"]
    /\ UNCHANGED <<availability, last, clubTier, club, image>>

\* empty club list: findFirst, then the flag write when nothing is left
EmptyAvailability ==
    /\ call.pc = "emptyAvailability"
    /\ availability' = UpsertEmptyAvailability(availability, entityAccess, call.e)
    /\ call' = [call EXCEPT !.pc = "done"]
    /\ UNCHANGED <<entityAccess, last, clubTier, club, image>>

InTransaction ==
    call.pc \in {"delete", "insertClub", "insertTier", "insert",
                 "availability", "commit"}

InProgress == InTransaction \/ call.pc \in {"emptyDelete", "emptyAvailability"}

\* the statement about to run throws, the commit fails or the transaction
\* times out: an open transaction is rolled back, committed writes stay
Fail ==
    /\ InProgress
    /\ call' = [call EXCEPT !.pc = "failed", !.at = call.pc, !.tx = entityAccess]
    /\ UNCHANGED <<entityAccess, availability, last, clubTier, club, image>>

Return ==
    /\ call.pc \in {"done", "failed"}
    /\ call' = Idle
    /\ UNCHANGED <<entityAccess, availability, last, clubTier, club, image>>

NextTx ==
    \/ BeginUpsert \/ BeginUpdate \/ BeginRemove
    \/ TxDelete \/ TxInsertClub \/ TxInsertTier \/ TxInsert
    \/ WriteAvailability \/ Commit
    \/ EmptyDelete \/ EmptyAvailability
    \/ Fail \/ Return

SpecTx == Init /\ [][NextTx]_vars

SpecTierDelete == InitTiers /\ [][NextTierDelete]_vars

(***************************************************************************)
(* A call and the same call once more.  `call` keeps the arguments of the  *)
(* entitlement call that has just completed; Again issues that call a      *)
(* second time, Forget drops the record so that any call can follow.       *)
(***************************************************************************)
Called(op, userId, e, clubs, clubId, clubTierIds, repeated) ==
    [pc |-> "called", op |-> op, userId |-> userId, e |-> e, clubs |-> clubs,
     clubId |-> clubId, clubTierIds |-> clubTierIds, repeated |-> repeated]

CallGrant ==
    \E userId \in Users, e \in Resources, clubs \in ClubLists,
       repeated \in BOOLEAN :
        /\ call.pc = "idle"
        /\ repeated => clubs # {} /\ IdsNamed(clubs) < MaxIds
        /\ upsertClubResource(userId, userId \in Moderators, e, clubs, repeated)
        /\ call' = Called("upsertClubResource", userId, e, clubs, "A", {}, repeated)
        /\ UNCHANGED <<clubTier, club, image>>

CallUpdateScope ==
    \E userId \in Users, e \in Resources, clubId \in Clubs,
       clubTierIds \in TierIdLists, repeated \in BOOLEAN :
        /\ call.pc = "idle"
        /\ repeated => clubTierIds # {} /\ 1 + Cardinality(clubTierIds) < MaxIds
        /\ updateClubResource(userId, userId \in Moderators, e, clubId,
                              clubTierIds, repeated)
        /\ call' = Called("updateClubResource", userId, e, {}, clubId,
                          clubTierIds, repeated)
        /\ UNCHANGED <<clubTier, club, image>>

CallRevoke ==
    \E userId \in Users, e \in Resources, clubId \in Clubs :
        /\ call.pc = "idle"
        /\ removeClubResource(userId, userId \in Moderators, e, clubId)
        /\ call' = Called("removeClubResource", userId, e, {}, clubId, {}, FALSE)
        /\ UNCHANGED <<clubTier, club, image>>

\* the call recorded in `call`, with the same arguments
Again ==
    /\ call.pc = "called"
    /\ IF call.op = "upsertClubResource"
       THEN upsertClubResource(call.userId, call.userId \in Moderators, call.e,
                               call.clubs, call.repeated)
       ELSE IF call.op = "updateClubResource"
       THEN updateClubResource(call.userId, call.userId \in Moderators, call.e,
                               call.clubId, call.clubTierIds, call.repeated)
       ELSE removeClubResource(call.userId, call.userId \in Moderators, call.e,
                               call.clubId)
    /\ call' = [call EXCEPT !.pc = "again"]
    /\ UNCHANGED <<clubTier, club, image>>

Forget ==
    /\ call.pc \in {"called", "again"}
    /\ call' = Idle
    /\ last' = Done("none", "u1", {}, "ok", {})
    /\ UNCHANGED <<entityAccess, availability, clubTier, club, image>>

NextRepeat == CallGrant \/ CallUpdateScope \/ CallRevoke \/ Again \/ Forget

SpecRepeat == Init /\ [][NextRepeat]_vars

(***************************************************************************)
(* getClubTiers ("listTiers"): a read.  The query waits in `call`, the     *)
(* answer is recorded in `last`.  The order of the returned tiers          *)
(* (unitAmount) and the tierId filter are left out.                        *)
(***************************************************************************)
\* an absent optional argument
Undefined == "undefined"

\* a request without a session: userId is undefined
Anonymous == "anonymous"

\* listedOnly / joinableOnly as requested
ListFlags == {"true", "false", Undefined}

\* every setting a tier can have
AllTierSettings == [unlisted : BOOLEAN, joinable : BOOLEAN]

\* variant: only the single clubId is checked against the caller's clubs
canViewAllTiers_ClubIdOnly(userId, isModerator, clubId, clubIds) ==
    LET userClubIds == IF userId = Anonymous THEN {}
                       ELSE {c.id : c \in userContributingClubs(userId, Clubs)}
    IN  isModerator \/ clubId \in userClubIds

\* isModerator || (userClubIds.includes(clubId ?? -1) &&
\*   !(clubIds ?? []).some(c => !userClubIds.includes(c)))
canViewAllTiers(userId, isModerator, clubId, clubIds) ==
    LET userClubIds == IF userId = Anonymous THEN {}
                       ELSE {c.id : c \in userContributingClubs(userId, Clubs)}
    IN  \/ isModerator
        \/ /\ clubId \in userClubIds
           /\ ~ \E c \in clubIds : c \notin userClubIds

getClubTiers(ct, clubId, clubIds, listedOnly, joinableOnly, userId, isModerator) ==
    IF clubId = Undefined /\ clubIds = {}
    THEN {}
    ELSE LET can == canViewAllTiers(userId, isModerator, clubId, clubIds)
             listed == IF can THEN listedOnly ELSE "true"
             joinable == IF can THEN joinableOnly ELSE "true"
         IN  {t \in ct :
                /\ IF clubId # Undefined THEN t.clubId = clubId
                                         ELSE t.clubId \in clubIds
                /\ listed # Undefined => t.unlisted = (listed = "false")
                /\ joinable # Undefined => t.joinable = (joinable = "true")}

Query(clubId, clubIds, listedOnly, joinableOnly, userId) ==
    [pc |-> "query", op |-> "getClubTiers", clubId |-> clubId,
     clubIds |-> clubIds, listedOnly |-> listedOnly,
     joinableOnly |-> joinableOnly, userId |-> userId]

\* any tier settings, any query
InitList ==
    /\ entityAccess = {}
    /\ availability = [e \in Resources |-> "Public"]
    /\ last = Done("none", "u1", {}, "ok", {})
    /\ \E f \in [ClubTiers -> AllTierSettings] :
          clubTier = {TierRecord(t, TierClub[t], f[t].unlisted, f[t].joinable) :
                         t \in ClubTiers}
    /\ \E clubId \in Clubs \cup {Undefined}, clubIds \in SUBSET Clubs,
          listedOnly \in ListFlags, joinableOnly \in ListFlags,
          userId \in Users \cup {Anonymous} :
          call = Query(clubId, clubIds, listedOnly, joinableOnly, userId)
    /\ club = {ClubRecord(c, ClubOwner[c], "n0") : c \in Clubs}
    /\ image = {}

ListTiers ==
    /\ call.pc = "query"
    /\ last' = [op |-> "getClubTiers", userId |-> call.userId,
                clubIds |-> call.clubIds, result |-> "ok", removed |-> {},
                clubId |-> call.clubId, listedOnly |-> call.listedOnly,
                joinableOnly |-> call.joinableOnly,
                tiers |-> getClubTiers(clubTier, call.clubId, call.clubIds,
                                       call.listedOnly, call.joinableOnly,
                                       call.userId, call.userId \in Moderators)]
    /\ call' = Idle
    /\ UNCHANGED <<entityAccess, availability, clubTier, club, image>>

NextList == ListTiers

SpecList == InitList /\ [][NextList]_vars

(***************************************************************************)
(* upsertClub with an id (updateClub) and deleteClub.                      *)
(* Rows of other tables that refer to a deleted club are left to the       *)
(* store's foreign keys and are not followed.                              *)
(***************************************************************************)
\* the id the next created club gets
FreshClubIds == {"C"}

ClubNames == {"n0", "n1"}

\* images passed without an id: createEntityImages makes a row for each
NewImages == SUBSET {"I1"}

\* largest balance of a club's buzz account
MaxBalance == 2

\* (buzzAccount?.balance ?? 0): an absent account counts as 0
Balances == 0 .. MaxBalance

createEntityImages(tx, images) == tx \cup images

ClubIdsOf(tx) == {c.id : c \in tx}

DoneClub(op, userId, id, result, balance, issued) ==
    [op |-> op, userId |-> userId, clubIds |-> {id}, result |-> result,
     removed |-> {}, balance |-> balance, issued |-> issued]

RejectClub(op, userId, id, result) ==
    /\ last' = DoneClub(op, userId, id, result, 0, <<>>)
    /\ UNCHANGED <<club, image>>

\* one transaction: findUniqueOrThrow, createEntityImages, club.update
updateClub(id, userId, name, images) ==
    IF id \notin ClubIdsOf(club)
    THEN RejectClub("upsertClub", userId, id, "NotFound")
    ELSE /\ club' = {IF c.id = id THEN ClubRecord(c.id, c.userId, name) ELSE c :
                        c \in club}
         /\ image' = createEntityImages(image, images)
         /\ last' = DoneClub("upsertClub", userId, id, "ok", 0, <<>>)

\* const [club] = await userContributingClubs({ userId }): the first row of
\* a query without clubIds and without orderBy, so any of the caller's clubs
UpsertClubPicks(contributing, id) == contributing

\* the branch of upsertClub taken when an id is passed
upsertClub(userId, isModerator, id, name, images) ==
    LET contributing == userContributingClubs(userId, ClubIdsOf(club))
        picks == UpsertClubPicks(contributing, id)
    IN  IF picks = {} /\ ~isModerator
        THEN RejectClub("upsertClub", userId, id, "AuthorizationError")
        ELSE IF picks = {}
        THEN \* club is undefined and club.userId is read
             RejectClub("upsertClub", userId, id, "TypeError")
        ELSE \E c \in picks :
                LET isOwner == c.userId = userId
                    canManageClub == \E a \in c.admins :
                                        "ManageClub" \in a.permissions
                IN  IF ~isOwner /\ ~canManageClub /\ ~isModerator
                    THEN RejectClub("upsertClub", userId, id,
                                    "AuthorizationError")
                    ELSE updateClub(id, userId, name, images)

BuzzTransaction(toAccountId, fromAccountId, amount) ==
    [call |-> "createBuzzTransaction", toAccountId |-> toAccountId,
     fromAccountId |-> fromAccountId, amount |-> amount]

ClubDelete(id) == [call |-> "club.delete", id |-> id]

\* variant: the club row is deleted first, then the balance is paid out
DeleteClubIssues_DeleteFirst(c, balance) ==
    <<ClubDelete(c.id)>> \o
    (IF balance > 0 THEN <<BuzzTransaction(c.userId, c.id, balance)>> ELSE <<>>)

\* the calls a permitted deleteClub issues, in order
DeleteClubIssues(c, balance) ==
    (IF balance > 0 THEN <<BuzzTransaction(c.userId, c.id, balance)>> ELSE <<>>)
        \o <<ClubDelete(c.id)>>

\* variant: the ownership check is dropped
DeleteClubDenied_Never(c, userId, isModerator) == FALSE

\* club.userId !== userId && !isModerator  => throwBadRequestError
DeleteClubDenied(c, userId, isModerator) == c.userId # userId /\ ~isModerator

\* balance: what getUserBuzzAccount reports for the club's account;
\* transferOk: whether createBuzzTransaction succeeds
deleteClub(id, userId, isModerator, balance, transferOk) ==
    IF id \notin ClubIdsOf(club)
    THEN RejectClub("deleteClub", userId, id, "NotFound")
    ELSE LET c == CHOOSE c \in club : c.id = id
         IN  IF DeleteClubDenied(c, userId, isModerator)
             THEN RejectClub("deleteClub", userId, id, "BadRequestError")
             ELSE IF balance > 0 /\ ~transferOk
             THEN /\ last' = DoneClub("deleteClub", userId, id, "BuzzError",
                                      balance,
                                      <<BuzzTransaction(c.userId, c.id, balance)>>)
                  /\ UNCHANGED <<club, image>>
             ELSE /\ club' = club \ {c}
                  /\ last' = DoneClub("deleteClub", userId, id, "ok", balance,
                                      DeleteClubIssues(c, balance))
                  /\ UNCHANGED image

UpsertClub ==
    \E userId \in Users, id \in Clubs \cup FreshClubIds, name \in ClubNames,
       images \in NewImages :
        /\ upsertClub(userId, userId \in Moderators, id, name, images)
        /\ UNCHANGED <<entityAccess, availability, clubTier, call>>

DeleteClub ==
    \E userId \in Users, id \in Clubs, balance \in Balances,
       transferOk \in BOOLEAN :
        /\ deleteClub(id, userId, userId \in Moderators, balance, transferOk)
        /\ UNCHANGED <<entityAccess, availability, clubTier, call>>

NextClub == UpsertClub \/ DeleteClub

SpecClub == InitTiers /\ [][NextClub]_vars

(***************************************************************************)
(* createClub: the cover images, the club row and the club's tiers are     *)
(* written on one transaction client.  `club`, `image` and `clubTier` are  *)
(* the committed tables; the statements of the callback work on the        *)
(* transaction's view of them, and the view is committed when the callback *)
(* returns and discarded when it throws.  Tier cover images are left out.  *)
(***************************************************************************)
\* variant: the statements of the callback commit one by one
TxOutcome_NoRollback(committed, view, returned) == view

\* dbWrite.$transaction(callback): what the store holds once the call is over
TxOutcome(committed, view, returned) ==
    IF returned THEN view ELSE committed

DoneCreate(userId, id, result, deleteTierIds) ==
    [op |-> "createClub", userId |-> userId, clubIds |-> {id},
     result |-> result, removed |-> {}, deleteTierIds |-> deleteTierIds]

\* imagesOk: whether createEntityImages succeeds.  upsertClubTiers is called
\* without isModerator, which it then reads as undefined.
createClub(userId, name, images, imagesOk, tiers, deleteTierIds) ==
    LET id     == CHOOSE c \in FreshClubIds : c \notin ClubIdsOf(club)
        image1 == createEntityImages(image, images)
        club1  == club \cup {ClubRecord(id, userId, name)}
        out    == upsertClubTiersOn(club1, clubTier, userId, FALSE, id,
                                    tiers, deleteTierIds)
        result == IF imagesOk THEN out.result ELSE "ImageError"
        returned == result = "ok"
    IN  /\ FreshClubIds \ ClubIdsOf(club) # {}
        /\ image' = TxOutcome(image, image1, returned)
        /\ club' = TxOutcome(club, club1, returned)
        /\ clubTier' = TxOutcome(clubTier, out.clubTier, returned)
        /\ last' = DoneCreate(userId, id, result, deleteTierIds)
        /\ UNCHANGED <<entityAccess, availability, call>>

CreateClub ==
    \E userId \in Users, name \in ClubNames, images \in NewImages,
       imagesOk \in BOOLEAN, c \in TierCalls :
        createClub(userId, name, images, imagesOk, c.tiers, c.deleteTierIds)

NextCreate == CreateClub

SpecCreate == InitTiers /\ [][NextCreate]_vars

(***************************************************************************)
(* The model handlers: what reaches the caller when an error is raised.    *)
(* A handler is described by what is raised in it and where; the request   *)
(* waits in `call` and the outcome is recorded in `last`.                  *)
(***************************************************************************)
\* errors made by throwNotFoundError, throwAuthorizationError and
\* throwBadRequestError: instances of TRPCError
DomainErrors == {"NotFoundError", "AuthorizationError", "BadRequestError"}

\* what can be raised while a handler runs: nothing, a domain error, or an
\* error of the store
Raised == {"none"} \cup DomainErrors \cup {"StoreError"}

\* if (error instanceof TRPCError) throw error; else throw throwDbError(error)
RethrowOrWrap ==
    {"getModelHandler", "createModelHandler", "upsertModelHandler",
     "updateModelHandler", "reorderModelVersionsHandler",
     "publishModelHandler", "unpublishModelHandler", "deleteModelHandler"}

\* throw throwDbError(error), or throwDbError(error), for every error
WrapAll ==
    {"getModelVersionsHandler", "getModelsWithVersionsHandler",
     "getModelDetailsForReviewHandler", "getMyDraftModelsHandler",
     "getDownloadCommandHandler"}

\* catch (error) {}
Swallow == {"getModelReportDetailsHandler"}

\* if (error instanceof TRPCError) error; else throw throwDbError(error)
DropDomain == {"restoreModelHandler"}

\* handlers without try / catch
NoCatch == {"getModelsInfiniteHandler", "getModelsPagedSimpleHandler"}

CatchingHandlers == RethrowOrWrap \cup WrapAll \cup Swallow \cup DropDomain

Handlers == CatchingHandlers \cup NoCatch

\* what the statements of a handler can raise, inside its try block and
\* outside it; the try block of getModelReportDetailsHandler holds one store
\* query, the other try blocks call services and throw domain errors
CanRaise(handler, place) ==
    IF place = "try"
    THEN IF handler \in NoCatch THEN {}
         ELSE IF handler \in Swallow THEN {"none", "StoreError"}
         ELSE Raised
    ELSE IF handler \in NoCatch THEN Raised
         ELSE IF handler = "updateModelHandler" THEN {"BadRequestError"}
         ELSE IF handler = "restoreModelHandler" THEN {"AuthorizationError"}
         ELSE {}

\* throwDbError: a domain error is thrown again as it is, any other error is
\* thrown as a database error
throwDbError(error) ==
    IF error \in DomainErrors THEN error ELSE "DatabaseError"

\* what the catch block of a handler makes of a domain error it caught
CaughtDomainError(handler, error) ==
    IF handler \in RethrowOrWrap THEN error
    ELSE IF handler \in WrapAll THEN throwDbError(error)
    ELSE "returnUndefined"

\* what the catch block makes of any other error
CaughtOtherError(handler, error) ==
    IF handler \in Swallow THEN "returnUndefined" ELSE throwDbError(error)

HandlerOutcome(handler, raised, place) ==
    IF raised = "none" THEN "return"
    ELSE IF place = "outside" THEN raised
    ELSE IF raised \in DomainErrors THEN CaughtDomainError(handler, raised)
    ELSE CaughtOtherError(handler, raised)

Request(handler, raised, place) ==
    [pc |-> "handler", op |-> handler, raised |-> raised, place |-> place]

InitHandlers ==
    /\ entityAccess = {}
    /\ availability = [e \in Resources |-> "Public"]
    /\ last = Done("none", "u1", {}, "ok", {})
    /\ clubTier = {TierRecord(t, TierClub[t], FALSE, TRUE) : t \in ClubTiers}
    /\ club = {ClubRecord(c, ClubOwner[c], "n0") : c \in Clubs}
    /\ image = {}
    /\ \E handler \in Handlers, place \in {"try", "outside"} :
          \E raised \in CanRaise(handler, place) :
              call = Request(handler, raised, place)

RunHandler ==
    /\ call.pc = "handler"
    /\ last' = [op |-> call.op, userId |-> "u1", clubIds |-> {},
                result |-> HandlerOutcome(call.op, call.raised, call.place),
                removed |-> {}, raised |-> call.raised, place |-> call.place]
    /\ call' = Idle
    /\ UNCHANGED <<entityAccess, availability, clubTier, club, image>>

NextHandlers == RunHandler

SpecHandlers == InitHandlers /\ [][NextHandlers]_vars

TypeOK ==
    /\ entityAccess \subseteq EntityAccessRows
    /\ availability \in [Resources -> Availability]
    /\ last.op \in {"none", "upsertClubResource", "updateClubResource",
                    "removeClubResource", "upsertClubTiers", "getClubTiers",
                    "upsertClub", "createClub", "deleteClub"} \cup Handlers
    /\ last.result \in {"ok", "AuthorizationError", "TypeError",
                        "BadRequestError", "RecordNotFound", "NotFound",
                        "UniqueConstraintError",
                        "BuzzError", "ImageError", "return", "returnUndefined",
                        "NotFoundError", "StoreError", "DatabaseError"}
    /\ \A c \in club : /\ c.id \in Clubs \cup FreshClubIds
                       /\ c.userId \in Users /\ c.name \in ClubNames
    /\ \A x \in club, y \in club : x.id = y.id => x = y
    /\ image \in NewImages
    /\ \A t \in clubTier : t.id \in ClubTiers \cup FreshTierIds
                           /\ t.clubId \in Clubs \cup FreshClubIds
    /\ \A x \in clubTier, y \in clubTier : x.id = y.id => x = y
    /\ last.removed \subseteq EntityAccessRows
    /\ call.pc \in {"idle", "delete", "insertClub", "insertTier", "insert",
                    "availability", "commit", "emptyDelete",
                    "emptyAvailability", "done", "failed", "query", "handler",
                    "called", "again"}
    /\ call.pc \notin {"idle", "query", "handler", "called", "again"}
          => call.tx \subseteq EntityAccessRows

(***************************************************************************)
(* Vocabulary of the properties                                            *)
(***************************************************************************)
\* the accessor id-space of club c on resource e
ClubScopeRows(e, c) ==
    {ClubRow(e, c)} \cup {TierRow(e, t) : t \in TierIdsOfClubs({c})}

\* the Club-level and Tier-level rows on e
ClubOrTierRows(ea, e) ==
    {row \in ea : row.accessTo = e /\ row.accessorType \in {"Club", "ClubTier"}}

UserRows(ea, e) ==
    {row \in ea : row.accessTo = e /\ row.accessorType = "User"}

RowsOf(ea, e) == {row \in ea : row.accessTo = e}

Contributes(userId, c) == userContributingClubs(userId, {c}) # {}

GrantOk == last.op = "upsertClubResource" /\ last.result = "ok"

\* the `clubs` arguments of the two end-to-end scenarios
OnlyClubA == {[clubId |-> "A", clubTierIds |-> {}]}

OnlyTierT1 == {[clubId |-> "A", clubTierIds |-> {"T1"}]}

\* call l, which left the EntityAccess table ea, removed the last grant of
\* club a on e: a revoke for a, or a grant with an empty club list
RemovedLastGrantOf(l, ea, e, a) ==
    /\ \/ l.op = "removeClubResource" /\ l.clubIds = {a}
       \/ l.op = "upsertClubResource" /\ l.clubIds = {}
    /\ l.result = "ok"
    /\ l.removed \cap ClubScopeRows(e, a) # {}
    /\ ea \cap ClubScopeRows(e, a) = {}

\* call l, which left the EntityAccess table ea, is a grant or an updateScope
\* for club b after which b has a grant on e
AddedGrantOf(l, ea, e, b) ==
    /\ l.op \in {"upsertClubResource", "updateClubResource"}
    /\ b \in l.clubIds
    /\ l.result = "ok"
    /\ ea \cap ClubScopeRows(e, b) # {}

(***************************************************************************)
(* C1..C10                                                                 *)
(***************************************************************************)
\* C1: after any sequence of completed grant, updateScope and revoke calls,
\* every resource is Public if and only if it has no EntityAccess row of any
\* accessor type.
C1_PublicIffNoGrants ==
    \A e \in Resources :
        (availability[e] = "Public") <=> ~HasAccess(entityAccess, e)

\* C2: from a Public resource with no grants, grant(R, owner of A, [{A}])
\* leaves R Private with exactly the Club-level row of A; the following
\* grant(R, same principal, []) leaves R Public with no row.
C2_GrantThenClear ==
    [][\A e \in Resources, u \in Users :
          (ClubOwner["A"] = u /\ UpsertMayAddResource(u, u \in Moderators, e)) =>
            /\ ( /\ ~HasAccess(entityAccess, e)
                 /\ availability[e] = "Public"
                 /\ last'.op = "upsertClubResource" /\ last'.clubIds = {"A"}
                 /\ upsertClubResource(u, u \in Moderators, e, OnlyClubA, FALSE) )
               => /\ last'.result = "ok"
                  /\ RowsOf(entityAccess', e) = {ClubRow(e, "A")}
                  /\ availability'[e] = "Private"
            /\ ( /\ GrantOk /\ last.userId = u /\ last.clubIds = {"A"}
                 /\ RowsOf(entityAccess, e) = {ClubRow(e, "A")}
                 /\ availability[e] = "Private"
                 /\ last'.op = "upsertClubResource" /\ last'.clubIds = {}
                 /\ upsertClubResource(u, u \in Moderators, e, {}, FALSE) )
               => /\ last'.result = "ok"
                  /\ RowsOf(entityAccess', e) = {}
                  /\ availability'[e] = "Public"
      ]_vars

\* the second call of the scenario has acted: the owner of A cleared a resource
\* whose only row was the Club-level row of A
C2_Witness ==
    /\ GrantOk /\ last.userId = ClubOwner["A"] /\ last.clubIds = {}
    /\ last.removed = {ClubRow("R", "A")}
    /\ RowsOf(entityAccess, "R") = {}
    /\ availability["R"] = "Public"

\* C3: a grant with a non-empty club list naming club a, on a resource holding
\* a Club- or Tier-level row of a club b not in the call, keeps every row of b
\* and leaves the resource with rows of both a and b.
C3_OtherClubKeptAndBothGate ==
    [][\A e \in Resources, a \in Clubs, b \in Clubs :
          ( /\ last'.op = "upsertClubResource" /\ last'.result = "ok"
            /\ a \in last'.clubIds
            /\ b \notin last'.clubIds
            /\ ClubScopeRows(e, b) \cap entityAccess # {} )
          => /\ ClubScopeRows(e, b) \cap entityAccess \subseteq entityAccess'
             /\ ClubScopeRows(e, a) \cap entityAccess' # {}
             /\ ClubScopeRows(e, b) \cap entityAccess' # {}
      ]_vars

\* C4: a grant with an empty club list deletes only Club/Tier rows of clubs
\* the calling principal owns or administers; rows of any other club stay.
C4_EmptyGrantKeepsOtherClubs ==
    [][\A e \in Resources, c \in Clubs :
          ( /\ last'.op = "upsertClubResource" /\ last'.result = "ok"
            /\ last'.clubIds = {}
            /\ last'.userId \notin Moderators
            /\ ~Contributes(last'.userId, c) )
          => ClubScopeRows(e, c) \cap entityAccess \subseteq entityAccess'
      ]_vars

\* C5: when R holds the Tier-level row of T1 (club A has tiers T1 and T2),
\* grant(R, principal, [{clubId: A}]) with no tier list removes it and inserts
\* the Club-level row of A: no Tier-level row of a tier of A is left.
C5_ClubLevelReplacesTiers ==
    [][\A e \in Resources, u \in Users :
          ( /\ TierRow(e, "T1") \in entityAccess
            /\ last'.op = "upsertClubResource" /\ last'.result = "ok"
            /\ upsertClubResource(u, u \in Moderators, e, OnlyClubA, FALSE) )
          => /\ ClubRow(e, "A") \in entityAccess'
             /\ \A t \in TierIdsOfClubs({"A"}) : TierRow(e, t) \notin entityAccess'
      ]_vars

C5_Witness ==
    /\ GrantOk /\ last.clubIds = {"A"}
    /\ TierRow("R", "T1") \in last.removed
    /\ ClubRow("R", "A") \in entityAccess
    /\ \A t \in TierIdsOfClubs({"A"}) : TierRow("R", t) \notin entityAccess

\* C6: for club A with tiers T1 and T2, grant(R, principal,
\* [{clubId: A, tierIds: [T1]}]) on a resource without grants leaves exactly
\* one row on R, the Tier-level row of T1.
C6_TierGrantOnly ==
    [][\A e \in Resources, u \in Users :
          ( /\ ~HasAccess(entityAccess, e)
            /\ last'.op = "upsertClubResource" /\ last'.result = "ok"
            /\ upsertClubResource(u, u \in Moderators, e, OnlyTierT1, FALSE) )
          => RowsOf(entityAccess', e) = {TierRow(e, "T1")}
      ]_vars

C6_Witness ==
    /\ GrantOk /\ last.clubIds = {"A"} /\ last.removed = {}
    /\ RowsOf(entityAccess, "R") = {TierRow("R", "T1")}
    /\ availability["R"] = "Private"

\* C7: a grant by a non-moderator in which at least one requested club is
\* neither owned nor administered by the principal is rejected as a whole
\* with AuthorizationError and changes no row and no availability flag.
C7_RejectAllOrNothing ==
    [][( /\ last'.op = "upsertClubResource"
         /\ last'.userId \notin Moderators
         /\ \E c \in last'.clubIds : ~Contributes(last'.userId, c) )
       => /\ last'.result = "AuthorizationError"
          /\ UNCHANGED <<entityAccess, availability>>
      ]_vars

\* the owner of the resource named one club of theirs and one that is not
C7_Witness ==
    /\ last.op = "upsertClubResource" /\ last.result = "AuthorizationError"
    /\ entityOwnership(last.userId, "R")
    /\ \E c \in last.clubIds : Contributes(last.userId, c)
    /\ \E c \in last.clubIds : ~Contributes(last.userId, c)
    /\ HasAccess(entityAccess, "R")

\* C8: grant and updateScope by a principal who neither owns the resource nor
\* is a moderator are rejected with AuthorizationError and change nothing,
\* even when the principal owns every club named.
C8_ResourceOwnerOrModerator ==
    [][\A e \in Resources :
          ( /\ last'.op \in {"upsertClubResource", "updateClubResource"}
            /\ last'.userId \notin Moderators
            /\ ~entityOwnership(last'.userId, e) )
          => /\ last'.result = "AuthorizationError"
             /\ UNCHANGED <<entityAccess, availability>>
      ]_vars

C8_Witness ==
    /\ last.op = "updateClubResource" /\ last.result = "AuthorizationError"
    /\ last.clubIds # {}
    /\ \A c \in last.clubIds : ClubOwner[c] = last.userId
    /\ ~entityOwnership(last.userId, "R")

\* C9: a resource holding a non-club (User) row stays Private once every
\* Club- and Tier-level row on it has been removed, by a grant with an empty
\* list or by a revoke.
C9_UserGrantKeepsPrivate ==
    [][\A e \in Resources :
          ( /\ UserRows(entityAccess, e) # {}
            /\ availability[e] = "Private"
            /\ \/ last'.op = "upsertClubResource" /\ last'.clubIds = {}
               \/ last'.op = "removeClubResource"
            /\ last'.result = "ok"
            /\ ClubOrTierRows(entityAccess', e) = {} )
          => /\ availability'[e] = "Private"
             /\ UserRows(entityAccess', e) # {}
      ]_vars

\* a revoke removed the last club rows of a resource that holds a user row
C9_Witness ==
    /\ last.op = "removeClubResource" /\ last.result = "ok"
    /\ last.removed # {}
    /\ UserRows(entityAccess, "R") # {}
    /\ ClubOrTierRows(entityAccess, "R") = {}
    /\ availability["R"] = "Private"

\* C10: updateScope(R, principal, C, tierIds) keeps every row on R whose
\* accessor is a club other than C or a tier of a club other than C.
C10_UpdateScopeKeepsOtherClubs ==
    [][\A e \in Resources, c \in Clubs, other \in Clubs :
          ( /\ last'.op = "updateClubResource" /\ last'.result = "ok"
            /\ last'.clubIds = {c}
            /\ other # c )
          => ClubScopeRows(e, other) \cap entityAccess \subseteq entityAccess'
      ]_vars

\* an updateScope for A replaced rows of A while the resource held rows of B
C10_Witness ==
    /\ last.op = "updateClubResource" /\ last.result = "ok"
    /\ last.clubIds = {"A"}
    /\ last.removed # {}
    /\ ClubScopeRows("R", "B") \cap entityAccess = ClubScopeRows("R", "B")

(***************************************************************************)
(* C11..C20                                                                *)
(***************************************************************************)
\* C11: after updateScope(R, principal, C, tierIds) succeeds, the rows on R
\* within C's accessor id-space (C and all tiers of C) are exactly the
\* Club-level row of C when tierIds is empty, otherwise one Tier-level row
\* per id in tierIds and no Club-level row of C.
C11_UpdateScopeExactReplace ==
    [][\A e \in Resources, u \in Users, c \in Clubs, tierIds \in TierIdLists :
          ( /\ last'.op = "updateClubResource" /\ last'.result = "ok"
            /\ last'.clubIds = {c}
            /\ updateClubResource(u, u \in Moderators, e, c, tierIds, FALSE) )
          => ClubScopeRows(e, c) \cap entityAccess'
                = IF tierIds = {} THEN {ClubRow(e, c)}
                                  ELSE {TierRow(e, t) : t \in tierIds}
      ]_vars

\* C12: after revoke(R, principal, C) succeeds, R has no Club-level row of C
\* and no Tier-level row of a tier of C; availability becomes Public exactly
\* when no row of any accessor type is left on R and is unchanged otherwise.
C12_RevokeClearsClub ==
    [][\A e \in Resources, c \in Clubs :
          ( /\ last'.op = "removeClubResource" /\ last'.result = "ok"
            /\ last'.clubIds = {c} )
          => /\ ClubScopeRows(e, c) \cap entityAccess' = {}
             /\ availability'[e] = IF HasAccess(entityAccess', e)
                                   THEN availability[e] ELSE "Public"
      ]_vars

\* a revoke for A removed the tier row of T1 while club B still gates R
C12_Witness ==
    /\ last.op = "removeClubResource" /\ last.result = "ok"
    /\ last.clubIds = {"A"}
    /\ TierRow("R", "T1") \in last.removed
    /\ ClubRow("R", "B") \in entityAccess
    /\ availability["R"] = "Private"

\* the principal may edit the tiers of club c: owner, moderator, or admin of
\* c holding ManageTiers
MayManageTiers(u, c) ==
    \/ ClubOwner[c] = u
    \/ u \in Moderators
    \/ \E a \in ClubAdmins :
          a.clubId = c /\ a.userId = u /\ "ManageTiers" \in a.permissions

\* C19: a replaceTiers call whose deleteIds include a tier that has
\* memberships fails with BadRequestError and changes no tier at all: nothing
\* is deleted (the member-less tiers in deleteIds included), created or
\* updated.  Memberships are never written by the call.
C19_MemberTierBlocksReplace ==
    [][ ( /\ last'.op = "upsertClubTiers"
          /\ last'.deleteTierIds \cap TiersWithMembers # {} )
        => /\ last'.result = "BadRequestError"
           /\ clubTier' = clubTier
      ]_vars

\* an authorized call naming T2 (with members) and T1 (without) was rejected
\* and T1 is still there
C19_Witness ==
    /\ last.op = "upsertClubTiers" /\ last.result = "BadRequestError"
    /\ last.userId = "u1" /\ last.clubIds = {"A"}
    /\ last.deleteTierIds = {"T1", "T2"}
    /\ \E t \in clubTier : t.id = "T1"
    /\ \E t \in clubTier : t.id = "T2"

\* C20: replaceTiers on club C by a principal who is not C's owner, not a
\* moderator and not an admin of C holding ManageTiers is rejected with
\* AuthorizationError and no tier is deleted, created or updated.
C20_UnauthorizedTierEditRejected ==
    [][ \A c \in Clubs :
          ( /\ last'.op = "upsertClubTiers" /\ last'.clubIds = {c}
            /\ ~MayManageTiers(last'.userId, c) )
          => /\ last'.result = "AuthorizationError"
             /\ clubTier' = clubTier
      ]_vars

\* the tier with this id exists
TierExists(t) == \E x \in clubTier : x.id = t

EntitlementOps ==
    {"upsertClubResource", "updateClubResource", "removeClubResource"}

\* C17: when e holds a Tier-level grant for a tier t of club C that has been
\* deleted, the next successful grant, updateScope or revoke of e for C
\* leaves no grant for t on e.
C17_NoOrphanAfterReplace ==
    [][ \A e \in Resources, t \in ClubTiers :
          ( /\ TierRow(e, t) \in entityAccess
            /\ ~TierExists(t)
            /\ last'.op \in EntitlementOps /\ last'.result = "ok"
            /\ TierClub[t] \in last'.clubIds )
          => TierRow(e, t) \notin entityAccess'
      ]_vars

\* C18: once a tier deletion and the entitlement calls referring to the tier
\* have completed, every ClubTier-type grant refers to an existing tier.
C18_TierGrantsReferToTiers ==
    \A r \in entityAccess :
        r.accessorType = "ClubTier" => TierExists(r.accessorId)

\* C16: of two successful grant/updateScope/revoke calls issued one after
\* the other for two different clubs a and b on the same resource, the later
\* one (for a) leaves the rows in b's accessor id-space exactly as the
\* earlier one (for b) left them.
C16_DifferentClubsDoNotClobber ==
    [][ \A e \in Resources, a \in Clubs, b \in Clubs :
          ( /\ a # b
            /\ last.op \in EntitlementOps /\ last.result = "ok"
            /\ last.clubIds = {b}
            /\ last'.op \in EntitlementOps /\ last'.result = "ok"
            /\ last'.clubIds = {a} )
          => ClubScopeRows(e, b) \cap entityAccess'
                = ClubScopeRows(e, b) \cap entityAccess
      ]_vars

\* the flag agrees with the rows: Private exactly when a row exists
Gated(ea, av) ==
    \A e \in Resources : av[e] = "Private" <=> HasAccess(ea, e)

\* the call in progress is a grant with a non-empty list or an updateScope
ReplacingCall ==
    /\ call.pc # "idle"
    /\ call.op \in {"upsertClubResource", "updateClubResource"}
    /\ call.clubs # {}

\* C13: while a grant, updateScope or revoke call that started from a store
\* where the flag agreed with the rows is in progress, the committed store
\* that other requests read is either Private with at least one grant or
\* Public with none.
C13_NoHalfGatedState ==
    ( /\ InProgress
      /\ Gated(call.before.entityAccess, call.before.availability) )
    => Gated(entityAccess, availability)

\* C14: when a grant with a non-empty list, or an updateScope, fails at a
\* step after its delete, the rows and the flag are what they were before
\* the call.
C14_FailureRollsBack ==
    ( /\ ReplacingCall
      /\ call.pc = "failed"
      /\ call.at # "delete" )
    => /\ entityAccess = call.before.entityAccess
       /\ availability = call.before.availability

\* C15: while a grant with a non-empty list or an updateScope runs, and once
\* it is done, the committed rows are either the complete set from before
\* the call or the complete set the call leaves, never a set in between.
C15_ReaderSeesOldOrNew ==
    ReplacingCall
    => \/ entityAccess = call.before.entityAccess
       \/ entityAccess =
             IF call.op = "upsertClubResource"
             THEN UpsertReplaceAccess(call.before.entityAccess, call.e, call.clubs)
             ELSE LET c == CHOOSE c \in call.clubs : TRUE
                  IN  UpdateReplaceAccess(call.before.entityAccess, call.e,
                                          c.clubId, c.clubTierIds)

\* a grant that replaces club A's Club row by tier rows has deleted and not
\* yet inserted; the committed rows still hold the Club row
C15_Witness ==
    /\ call.pc = "insertTier" /\ call.op = "upsertClubResource"
    /\ ClubRow("R", "A") \in entityAccess
    /\ ClubRow("R", "A") \notin call.tx
    /\ \E c \in call.clubs : c.clubId = "A" /\ c.clubTierIds = {"T1"}

(***************************************************************************)
(* C21..C30                                                                *)
(***************************************************************************)
\* C21: the delete, create and update phases of one replaceTiers call are
\* one atomic unit: a call that fails leaves the tier table as it was, the
\* deletions of its delete phase included.
C21_ReplaceTiersAtomic ==
    [][ ( /\ last'.op = "upsertClubTiers"
          /\ last'.result # "ok" )
        => clubTier' = clubTier
      ]_vars

\* the clubs a listTiers query names, by clubId or in clubIds
QueriedClubs(q) == (IF q.clubId = Undefined THEN {} ELSE {q.clubId}) \cup q.clubIds

\* the caller owns or administers every club the query names
ContributesToAll(userId, clubs) ==
    userId # Anonymous /\ \A c \in clubs : Contributes(userId, c)

\* C22: listTiers by a caller who is not a moderator and does not own or
\* administer every queried club returns only tiers with unlisted = FALSE
\* and joinable = TRUE, whatever listedOnly / joinableOnly were requested.
C22_OutsidersSeeListedJoinableOnly ==
    ( /\ last.op = "getClubTiers"
      /\ last.userId \notin Moderators
      /\ ~ContributesToAll(last.userId, QueriedClubs(last)) )
    => \A t \in last.tiers : ~t.unlisted /\ t.joinable

\* u1 owns club A only, asked for the unlisted tiers of A with B in clubIds;
\* A has an unlisted tier and the answer leaves it out
C22_Witness ==
    /\ last.op = "getClubTiers" /\ last.userId = "u1"
    /\ last.clubId = "A" /\ last.clubIds = {"B"}
    /\ last.listedOnly = "false" /\ last.joinableOnly = Undefined
    /\ \E t \in clubTier : t.clubId = "A" /\ t.unlisted
    /\ \E t \in clubTier : t.clubId = "A" /\ ~t.unlisted /\ t.joinable
    /\ last.tiers # {}
    /\ \A t \in last.tiers : ~t.unlisted /\ t.joinable

\* C23: deleteClub by the owner of a club whose account holds b > 0 issues
\* exactly one transfer of b from the club's account to the owner's, and
\* issues it before the club row is deleted; with balance 0 it issues no
\* transfer and deletes the club.
C23_RefundBeforeDelete ==
    [][ \A c \in Clubs :
          ( /\ last'.op = "deleteClub" /\ last'.clubIds = {c}
            /\ last'.userId = ClubOwner[c]
            /\ c \in ClubIdsOf(club) )
          => LET refund == BuzzTransaction(ClubOwner[c], c, last'.balance)
             IN  IF last'.balance = 0
                 THEN /\ last'.result = "ok"
                      /\ last'.issued = <<ClubDelete(c)>>
                      /\ c \notin ClubIdsOf(club')
                 ELSE IF last'.result = "ok"
                 THEN /\ last'.issued = <<refund, ClubDelete(c)>>
                      /\ c \notin ClubIdsOf(club')
                 ELSE /\ last'.issued = <<refund>>
                      /\ club' = club
      ]_vars

\* u1 deleted its club A, which held 2: refund first, then the delete
C23_Witness ==
    /\ last.op = "deleteClub" /\ last.result = "ok"
    /\ last.userId = "u1" /\ last.clubIds = {"A"}
    /\ last.balance = 2
    /\ Len(last.issued) = 2
    /\ "A" \notin ClubIdsOf(club)

\* C24: a platform moderator passes every club-scoped permission check; in
\* particular upsertClub on an existing club by a moderator who owns and
\* administers no club is authorized and updates the club.
C24_ModeratorMayEditClub ==
    [][ \A c \in Clubs :
          ( /\ last'.op = "upsertClub" /\ last'.clubIds = {c}
            /\ last'.userId \in Moderators
            /\ c \in ClubIdsOf(club) )
          => /\ last'.result = "ok"
             /\ \E r \in club' : r.id = c
      ]_vars

\* the principal may revoke club c's grants on e
MayRevoke(u, e, c) ==
    \/ u \in Moderators
    \/ ResourceOwner[e] = u
    \/ ClubOwner[c] = u
    \/ \E a \in ClubAdmins :
          a.clubId = c /\ a.userId = u /\ "ManageResources" \in a.permissions

\* C25: createClub is all-or-nothing: when image creation, club creation or
\* the tier phases fail (the tier-deletion guard included), no image, no club
\* row and no tier change of the call is left in the store.
C25_CreateClubAllOrNothing ==
    [][ ( /\ last'.op = "createClub"
          /\ last'.result # "ok" )
        => /\ club' = club
           /\ image' = image
           /\ clubTier' = clubTier
      ]_vars

\* a createClub that deleted T1 on its transaction and then failed updating
\* it, with T1 still in the store and no new club
C25_Witness ==
    /\ last.op = "createClub"
    /\ last.result = "RecordNotFound"
    /\ last.deleteTierIds = {"T1"}
    /\ TierExists("T1")
    /\ ClubIdsOf(club) = Clubs

\* C28: when a call that removes club A's last grant on a resource and a call
\* that adds club B's grant on it have both completed, in either order, the
\* resource is Public if and only if it has zero grants.
C28_RevokeAndGrantAgree ==
    [][ \A e \in Resources :
          ( \/ /\ RemovedLastGrantOf(last, entityAccess, e, "A")
                /\ AddedGrantOf(last', entityAccess', e, "B")
             \/ /\ AddedGrantOf(last, entityAccess, e, "B")
                /\ RemovedLastGrantOf(last', entityAccess', e, "A") )
          => ( availability'[e] = "Public"
                 <=> ~HasAccess(entityAccess', e) )
      ]_vars

\* C29: revoke by a principal who is not a moderator, not the owner of the
\* resource, not the owner of the club and not an admin of the club with
\* ManageResources is rejected with AuthorizationError, and deletes no grant
\* and changes no availability flag.
C29_UnauthorizedRevokeRejected ==
    [][ \A e \in Resources, c \in Clubs :
          ( /\ last'.op = "removeClubResource" /\ last'.clubIds = {c}
            /\ ~MayRevoke(last'.userId, e, c) )
          => /\ last'.result = "AuthorizationError"
             /\ UNCHANGED <<entityAccess, availability>>
      ]_vars

\* the principal may edit club c: owner, moderator, or admin of c holding
\* ManageClub
MayManageClub(u, c) ==
    \/ ClubOwner[c] = u
    \/ u \in Moderators
    \/ \E a \in ClubAdmins :
          a.clubId = c /\ a.userId = u /\ "ManageClub" \in a.permissions

\* C30: upsertClub with an id by a non-moderator principal who is neither
\* the owner of that club nor an admin of that club holding ManageClub is
\* rejected with AuthorizationError and the club is unchanged.
C30_EditOnlyOwnClub ==
    [][ \A c \in Clubs :
          ( /\ last'.op = "upsertClub" /\ last'.clubIds = {c}
            /\ ~MayManageClub(last'.userId, c) )
          => /\ last'.result = "AuthorizationError"
             /\ club' = club
      ]_vars

\* C26: in every handler that catches errors, a domain error (NotFound,
\* Authorization, BadRequest) raised inside the handler reaches the caller
\* as that same error, and an error that is not a domain error reaches the
\* caller as a database error.
C26_DomainErrorsPassThrough ==
    ( /\ last.op \in CatchingHandlers
      /\ last.place = "try"
      /\ last.raised # "none" )
    => IF last.raised \in DomainErrors
       THEN last.result = last.raised
       ELSE last.result = "DatabaseError"

\* C27: no handler completes normally after an error was raised in it.
C27_NoNormalReturnAfterError ==
    ( /\ last.op \in Handlers
      /\ last.raised # "none" )
    => last.result \notin {"return", "returnUndefined"}

(***************************************************************************)
(* C31..C38                                                                *)
(***************************************************************************)
\* the club of tier t, read from the tier table
ClubOfTier(t) == {x.clubId : x \in {y \in clubTier : y.id = t}}

\* C31: every Tier-level grant a grant or updateScope call inserts is for a
\* tier of a club named in that call, and when the caller is not a moderator
\* it is for a tier of a club the caller owns or administers.
C31_TierGrantsWithinNamedClubs ==
    [][ \A e \in Resources, t \in ClubTiers :
          ( /\ last'.op \in {"upsertClubResource", "updateClubResource"}
            /\ TierRow(e, t) \in entityAccess' \ entityAccess )
          => /\ ClubOfTier(t) \subseteq last'.clubIds
             /\ last'.userId \notin Moderators
                   => \A c \in ClubOfTier(t) : Contributes(last'.userId, c)
      ]_vars

\* C32: a replaceTiers call for club C, and the tier phases of createClub for
\* the new club, leave every tier of another club as it was: such a tier is
\* neither deleted nor updated.
C32_OtherClubsTiersUntouched ==
    [][ last'.op \in {"upsertClubTiers", "createClub"}
        => \A t \in clubTier : t.clubId \notin last'.clubIds => t \in clubTier'
      ]_vars

\* C33: no grant, updateScope or revoke call, successful or rejected, creates,
\* deletes or alters a User-type grant.
C33_UserGrantsUntouched ==
    [][ last'.op \in EntitlementOps
        => \A e \in Resources : UserRows(entityAccess', e) = UserRows(entityAccess, e)
      ]_vars

\* a successful call for club A that removed rows of a resource on which the
\* user with club A's id holds a grant
C33_Witness ==
    /\ last.op \in EntitlementOps
    /\ last.result = "ok"
    /\ last.removed # {}
    /\ \E e \in Resources : UserRow(e, UnlockedUser) \in entityAccess
    /\ UnlockedUser \in last.clubIds

\* C34: no resource holds at the same time a Club-level grant for a club and
\* a Tier-level grant for a tier of that same club.
C34_ClubOrTierLevelPerClub ==
    \A e \in Resources, t \in clubTier :
        ~ ( /\ ClubRow(e, t.clubId) \in entityAccess
            /\ TierRow(e, t.id) \in entityAccess )

\* the tiers of the queried clubs selected by the flags as the caller gave them
TiersAsRequested(q) ==
    {t \in clubTier :
        /\ IF q.clubId # Undefined THEN t.clubId = q.clubId
                                   ELSE t.clubId \in q.clubIds
        /\ q.listedOnly # Undefined => t.unlisted = (q.listedOnly = "false")
        /\ q.joinableOnly # Undefined => t.joinable = (q.joinableOnly = "true")}

\* C37: listTiers by a moderator, or by a caller who owns or administers
\* every queried club, answers with the requested listedOnly / joinableOnly
\* applied unchanged, whether the clubs come as clubId or only as clubIds.
C37_InsidersGetRequestedFlags ==
    ( /\ last.op = "getClubTiers"
      /\ QueriedClubs(last) # {}
      /\ \/ last.userId \in Moderators
         \/ ContributesToAll(last.userId, QueriedClubs(last)) )
    => last.tiers = TiersAsRequested(last)

\* C38: deleteClub by someone who is neither the club's owner nor a moderator
\* is rejected with no transfer issued and the club row kept; when a
\* moderator deletes a club holding a positive balance, the refund goes to
\* the account of the club's owner.
C38_DeleteClubOwnerOrModerator ==
    [][ \A c \in club :
          ( last'.op = "deleteClub" /\ last'.clubIds = {c.id} )
          => /\ ( c.userId # last'.userId /\ last'.userId \notin Moderators )
                   => /\ last'.result # "ok"
                      /\ last'.issued = <<>>
                      /\ club' = club
             /\ ( last'.userId \in Moderators /\ last'.balance > 0 )
                   => /\ last'.issued # <<>>
                      /\ Head(last'.issued)
                            = BuzzTransaction(c.userId, c.id, last'.balance)
      ]_vars

\* the moderator u3 deleted club A, which held 2: the refund went to u1
C38_Witness ==
    /\ last.op = "deleteClub" /\ last.result = "ok"
    /\ last.userId = "u3" /\ last.clubIds = {"A"}
    /\ last.balance = 2
    /\ Head(last.issued).toAccountId = "u1"
    /\ "A" \notin ClubIdsOf(club)

\* the rows one entry of `clubs` makes the call insert
RowsOfEntry(e, c) ==
    IF c.clubTierIds = {} THEN {ClubRow(e, c.clubId)}
                          ELSE {TierRow(e, t) : t \in c.clubTierIds}

\* the rows the entries make the call insert, each as often as it is listed
RECURSIVE InsertedRows(_, _)
InsertedRows(e, clubs) ==
    IF clubs = {} THEN EmptyBag
    ELSE LET c == CHOOSE c \in clubs : TRUE
         IN  SetToBag(RowsOfEntry(e, c)) (+) InsertedRows(e, clubs \ {c})

\* what a table without a key would hold after the delete and the inserts of
\* a grant for `clubs`, with one entry listed a second time when `repeated`
GrantStores(ea, e, clubs, repeated) ==
    LET clubIds == {c.clubId : c \in clubs}
    IN  SetToBag(DeleteScoped(ea, e, clubIds, TierIdsOfClubs(clubIds)))
            (+) InsertedRows(e, clubs)
            (+) (IF repeated
                 THEN SetToBag(RowsOfEntry(e, CHOOSE c \in clubs : TRUE))
                 ELSE EmptyBag)

\* the same for an updateScope of clubId to clubTierIds
UpdateStores(ea, e, clubId, clubTierIds, repeated) ==
    LET entry == [clubId |-> clubId, clubTierIds |-> clubTierIds]
    IN  SetToBag(DeleteScoped(ea, e, {clubId}, TierIdsOfClubs({clubId})))
            (+) SetToBag(RowsOfEntry(e, entry))
            (+) (IF repeated /\ clubTierIds # {}
                 THEN SetToBag({TierRow(e, CHOOSE t \in clubTierIds : TRUE)})
                 ELSE EmptyBag)

OneRowPerKey(rows) == \A r \in BagToSet(rows) : CopiesIn(r, rows) = 1

C36_SecondCallChangesNothing ==
    [][ ( call.pc = "called" /\ call'.pc = "again" )
        => /\ entityAccess' = entityAccess
           /\ availability' = availability
      ]_vars

\* the second of two successful grants whose array has two entries
C36_Witness ==
    /\ call.pc = "again" /\ call.op = "upsertClubResource"
    /\ last.result = "ok"
    /\ Cardinality(call.clubs) = 2
    /\ \E e \in Resources : Cardinality(ClubOrTierRows(entityAccess, e)) = 2
====
